---- MODULE Spec2Model ----
(***************************************************************************)
(* Order lifecycle and payment reconciliation of the LocalChef server      *)
(* (src/index.js): the order routes, the checkout route and the Stripe     *)
(* webhook, over the orders and payments collections.                      *)
(*                                                                         *)
(* A MongoDB updateOne/insertOne on one document is one atomic step.  A    *)
(* handler with a single store operation is one action (middleware, store  *)
(* operation and response); the webhook handler, which awaits two store    *)
(* operations, is a process with a position.                               *)
(***************************************************************************)
EXTENDS Integers, Sequences, FiniteSets, Bags, TLC

\* ---------------------------------------------------------------- bounds
\* Orders placed, checkout sessions created and webhook handlers in flight in
\* Spec; requests in flight in SpecRace; sessions and handlers in SpecForged.
MaxOrders == 1
MaxPayments == 2
MaxHooks == 2
MaxRace == 3
MaxForgedPayments == 1
MaxForgedHooks == 1

\* ---------------------------------------------------------------- values
\* A field that is missing / a JavaScript undefined.
Absent == "absent"
\* new Date() / new Date().toISOString(): the model keeps that a timestamp
\* field is set, not its reading (no route reads or compares one).
Stamp == "set"

\* JavaScript truthiness of a body field (strings; "0" stands for the number 0).
Truthy(v) == v \notin {Absent, "", "0"}

\* The user documents the tokens are issued for (usersCollection).
U1 == [email |-> "u1@x", role |-> "user", id |-> "uid1"]
U2 == [email |-> "u2@x", role |-> "user", id |-> "uid2"]
K1 == [email |-> "k1@x", role |-> "chef", id |-> "uid3"]
K2 == [email |-> "k2@x", role |-> "chef", id |-> "uid4"]
Users == {U1, U2, K1, K2}

\* jwt.sign payload of POST /auth/login: email, role and the user's _id.
\* No chefId is put in the token, so req.user.chefId is undefined.
LoginToken(u) ==
  [email |-> u.email, role |-> u.role, id |-> u.id, chefId |-> Absent]

\* jwt.sign payload of POST /auth/register: email and role only.
RegisterToken(u) ==
  [email |-> u.email, role |-> u.role, id |-> Absent, chefId |-> Absent]

Tokens == {LoginToken(u) : u \in Users} \cup {RegisterToken(K2)}

\* What the token cookie of a request can be: none, one jwt.verify rejects,
\* or an issued token.
NoCookie == [email |-> Absent, role |-> "none", id |-> Absent, chefId |-> Absent]
BadCookie == [email |-> Absent, role |-> "invalid", id |-> Absent, chefId |-> Absent]
Cookies == Tokens \cup {NoCookie, BadCookie}

\* verifyToken: 401 without a cookie, 403 when jwt.verify throws, else next().
verifyToken(c) ==
  IF c = NoCookie THEN 401 ELSE IF c = BadCookie THEN 403 ELSE 200

\* verifyRole(role): 403 unless req.user.role is the role, else next().
verifyRole(c, role) == IF c.role # role THEN 403 ELSE 200

\* The two middlewares in front of a role-gated route.
Gate(c, role) ==
  IF verifyToken(c) # 200 THEN verifyToken(c) ELSE verifyRole(c, role)

\* ObjectIds the store hands out, in order of insertion.
ObjId == <<"o1", "o2", "o3", "o4", "o5", "o6">>
\* A well-formed ObjectId that names no document, and a string that is no ObjectId.
MissingId == "o9"
MalformedId == "xyz"
\* new ObjectId(s) throws on a string that is not 24 hex digits.
ValidObjectId(s) == s \notin {MalformedId, Absent, ""}

\* Request bodies of the place-order routes.
FullBody ==
  [mealId |-> "m1", mealName |-> "Dal", foodName |-> Absent, chefId |-> "uid3",
   chefName |-> "K1", price |-> "20", userEmail |-> Absent,
   orderStatus |-> Absent, paymentStatus |-> Absent]
\* No chefId in the body.
NoChefBody == [FullBody EXCEPT !.chefId = Absent]
\* A body that also names an owner and statuses of its own.
ForgedBody ==
  [FullBody EXCEPT !.userEmail = "u2@x", !.orderStatus = "accepted",
                   !.paymentStatus = "paid"]
CoreBodies == {FullBody, NoChefBody, ForgedBody}
\* The same for another meal, so that the order it makes can be told apart.
ForgedMealBody == [ForgedBody EXCEPT !.mealId = "m2"]
\* Bodies with a price of zero and a negative price.
ZeroPriceBody == [FullBody EXCEPT !.price = "0"]
NegativePriceBody == [FullBody EXCEPT !.price = "-5"]
PriceBodies == {ZeroPriceBody, NegativePriceBody}

VARIABLES orders, payments, sessions, hooks, resp, race

vars == <<orders, payments, sessions, hooks, resp, race>>

\* The :id parameters a request can carry.
IdParams == DOMAIN orders \cup {MissingId, MalformedId}

\* ------------------------------------------------------------- the store
\* $set: the document with the given fields overwritten.
SetFields(doc, upd) ==
  [f \in DOMAIN doc |-> IF f \in DOMAIN upd THEN upd[f] ELSE doc[f]]

\* A query value: the driver serialises undefined as null, and {f: null}
\* matches a document whose field f is null or missing.
FieldMatches(docValue, queryValue) == docValue = queryValue

\* The filter {_id: new ObjectId(id), <field>: value} on the orders collection.
OrderMatches(id, field, value) ==
  /\ id \in DOMAIN orders
  /\ FieldMatches(orders[id][field], value)

\* ordersCollection.updateOne(filter, {$set: upd}): the collection afterwards.
OrdersAfterUpdate(id, field, value, upd) ==
  IF OrderMatches(id, field, value)
  THEN [orders EXCEPT ![id] = SetFields(orders[id], upd)]
  ELSE orders

\* modifiedCount of that update: 1 when the matched document changed.  A
\* timestamp written again differs from the stored one unless both requests
\* fall in the same millisecond (sameMs).
ModifiedCount(id, field, value, upd, stamped, sameMs) ==
  IF ~OrderMatches(id, field, value) THEN 0
  ELSE IF SetFields(orders[id], upd) # orders[id] THEN 1
  ELSE IF stamped /\ ~sameMs THEN 1 ELSE 0

\* The response of the last request served: who answered (a route or a
\* middleware), the :id the route was asked about, the HTTP status, whether
\* the body carries success: true, and its modifiedCount.
Response(route, id, status, success, modified) ==
  [route |-> route, id |-> id, status |-> status, success |-> success,
   modified |-> modified]

NoResponse == Response("none", Absent, 0, FALSE, 0)

\* The response of the middleware that stops a request.
GateResponse(c, role) ==
  IF verifyToken(c) # 200
  THEN Response("verifyToken", Absent, verifyToken(c), FALSE, 0)
  ELSE Response("verifyRole", Absent, verifyRole(c, role), FALSE, 0)

\* Whether a request can fall in the millisecond of the write that set
\* timestamp field f of order id: only when that field is set.
SameMs(id, f) ==
  IF id \in DOMAIN orders /\ orders[id][f] = Stamp THEN BOOLEAN ELSE {FALSE}

Init ==
  /\ orders = << >>
  /\ payments = << >>
  /\ sessions = << >>
  /\ hooks = EmptyBag
  /\ resp = NoResponse
  /\ race = {}

\* ------------------------------------------------------ placing an order
\* The document POST /orders inserts.
NewOrder(c, b) ==
  [mealId |-> b.mealId,
   mealName |-> IF Truthy(b.mealName) THEN b.mealName ELSE b.foodName,
   foodName |-> Absent, chefId |-> b.chefId, chefName |-> b.chefName,
   price |-> b.price, userEmail |-> c.email, orderStatus |-> "pending",
   paymentStatus |-> "Pending", orderTime |-> Stamp, acceptedAt |-> Absent,
   rejectedAt |-> Absent, cancelledAt |-> Absent]

\* The document POST /user/orders inserts: the body, then the server's fields.
\* A document with the server's fields first and the body spread over them.
NewUserOrderBodyLast(c, b) ==
  [mealId |-> b.mealId, mealName |-> b.mealName, foodName |-> b.foodName,
   chefId |-> b.chefId, chefName |-> b.chefName, price |-> b.price,
   userEmail |-> IF b.userEmail # Absent THEN b.userEmail ELSE c.email,
   orderStatus |-> IF b.orderStatus # Absent THEN b.orderStatus ELSE "pending",
   paymentStatus |-> IF b.paymentStatus # Absent THEN b.paymentStatus ELSE "unpaid",
   orderTime |-> Stamp, acceptedAt |-> Absent,
   rejectedAt |-> Absent, cancelledAt |-> Absent]
NewUserOrder(c, b) ==
  [mealId |-> b.mealId, mealName |-> b.mealName, foodName |-> b.foodName,
   chefId |-> b.chefId, chefName |-> b.chefName, price |-> b.price,
   userEmail |-> c.email, orderStatus |-> "pending",
   paymentStatus |-> "unpaid", orderTime |-> Stamp, acceptedAt |-> Absent,
   rejectedAt |-> Absent, cancelledAt |-> Absent]

\* insertOne: the collection with the document under the next ObjectId.
InsertOrder(doc) ==
  LET id == ObjId[Cardinality(DOMAIN orders) + 1]
  IN  [i \in DOMAIN orders \cup {id} |-> IF i = id THEN doc ELSE orders[i]]

\* POST /orders (verifyToken, verifyRole("user")).
PlaceOrder(c, b, storeOk) ==
  /\ IF Gate(c, "user") # 200
     THEN /\ resp' = GateResponse(c, "user")
          /\ UNCHANGED orders
     ELSE IF ~Truthy(b.mealId) \/ ~Truthy(NewOrder(c, b).mealName)
              \/ ~Truthy(b.chefId) \/ ~Truthy(b.chefName) \/ ~Truthy(b.price)
     THEN /\ resp' = Response("POST /orders", Absent, 400, FALSE, 0)
          /\ UNCHANGED orders
     ELSE IF ~storeOk
     THEN /\ resp' = Response("POST /orders", Absent, 500, FALSE, 0)
          /\ UNCHANGED orders
     ELSE /\ orders' = InsertOrder(NewOrder(c, b))
          /\ resp' = Response("POST /orders", Absent, 200, TRUE, 0)
  /\ UNCHANGED <<payments, sessions, hooks, race>>

\* POST /user/orders (verifyToken only).
PlaceUserOrder(c, b, storeOk) ==
  /\ IF verifyToken(c) # 200
     THEN /\ resp' = Response("verifyToken", Absent, verifyToken(c), FALSE, 0)
          /\ UNCHANGED orders
     ELSE IF ~storeOk
     THEN /\ resp' = Response("POST /user/orders", Absent, 500, FALSE, 0)
          /\ UNCHANGED orders
     ELSE /\ orders' = InsertOrder(NewUserOrder(c, b))
          /\ resp' = Response("POST /user/orders", Absent, 200, FALSE, 0)
  /\ UNCHANGED <<payments, sessions, hooks, race>>

\* ------------------------------------------- cancel, accept and reject
\* The $set documents of the five routes that write orderStatus.
\* A cancel that also resets the paymentStatus.
CancelSetUnpaid ==
  [orderStatus |-> "cancelled", cancelledAt |-> Stamp, paymentStatus |-> "unpaid"]
CancelSet == [orderStatus |-> "cancelled", cancelledAt |-> Stamp]
AcceptSet == [orderStatus |-> "accepted", acceptedAt |-> Stamp]
RejectSet == [orderStatus |-> "rejected", rejectedAt |-> Stamp]
ChefAcceptSet == [orderStatus |-> "accepted"]
ChefRejectSet == [orderStatus |-> "rejected"]

\* The filters of the five routes: the order's field and the token's value.
\* A cancel filter that checks the status and forgets the owner.
CancelFilterNoOwner(c) == [field |-> "orderStatus", value |-> "pending"]
CancelFilter(c) == [field |-> "userEmail", value |-> c.email]
AcceptFilter(c) == [field |-> "chefId", value |-> c.chefId]
RejectFilter(c) == [field |-> "chefId", value |-> c.chefId]
ChefAcceptFilter(c) == [field |-> "chefId", value |-> c.id]
ChefRejectFilter(c) == [field |-> "chefId", value |-> c.id]

\* The five routes by name: the role verifyRole asks for, the filter, the $set,
\* and whether the body is {success: true, modifiedCount} (wrapped) or the
\* driver's result.
CancelRoute == "PUT /orders/:id/cancel"
AcceptRoute == "PUT /orders/:id/accept"
RejectRoute == "PUT /orders/:id/reject"
ChefAcceptRoute == "PUT /chef/orders/:id/accept"
ChefRejectRoute == "PUT /chef/orders/:id/reject"
StatusRoutes ==
  {CancelRoute, AcceptRoute, RejectRoute, ChefAcceptRoute, ChefRejectRoute}

RouteOf(name, c) ==
  CASE name = CancelRoute ->
         [role |-> "user", flt |-> CancelFilter(c), upd |-> CancelSet,
          wrapped |-> TRUE]
    [] name = AcceptRoute ->
         [role |-> "chef", flt |-> AcceptFilter(c), upd |-> AcceptSet,
          wrapped |-> TRUE]
    [] name = RejectRoute ->
         [role |-> "chef", flt |-> RejectFilter(c), upd |-> RejectSet,
          wrapped |-> TRUE]
    [] name = ChefAcceptRoute ->
         [role |-> "chef", flt |-> ChefAcceptFilter(c), upd |-> ChefAcceptSet,
          wrapped |-> FALSE]
    [] name = ChefRejectRoute ->
         [role |-> "chef", flt |-> ChefRejectFilter(c), upd |-> ChefRejectSet,
          wrapped |-> FALSE]

\* The body shared by the five handlers: inside try, new ObjectId(req.params.id),
\* updateOne(filter, {$set}) and res.json; the catch answers 500.
\* HandlerOrders is the orders collection afterwards, HandlerResponse the answer.
HandlerOrders(name, c, id, storeOk) ==
  LET r == RouteOf(name, c)
  IN  IF ~ValidObjectId(id) \/ ~storeOk THEN orders
      ELSE OrdersAfterUpdate(id, r.flt.field, r.flt.value, r.upd)

HandlerResponse(name, c, id, storeOk, sameMs) ==
  LET r == RouteOf(name, c)
  IN  IF ~ValidObjectId(id) \/ ~storeOk THEN Response(name, id, 500, FALSE, 0)
      ELSE Response(name, id, 200, r.wrapped,
                    ModifiedCount(id, r.flt.field, r.flt.value, r.upd,
                                  r.wrapped, sameMs))

\* A whole request to one of the five routes: verifyToken and verifyRole, then
\* the handler.
After(name, c, id, storeOk) ==
  IF Gate(c, RouteOf(name, c).role) # 200 THEN orders
  ELSE HandlerOrders(name, c, id, storeOk)

Answer(name, c, id, storeOk, sameMs) ==
  IF Gate(c, RouteOf(name, c).role) # 200
  THEN GateResponse(c, RouteOf(name, c).role)
  ELSE HandlerResponse(name, c, id, storeOk, sameMs)

StatusRoute(name, c, id, storeOk, sameMs) ==
  /\ orders' = After(name, c, id, storeOk)
  /\ resp' = Answer(name, c, id, storeOk, sameMs)
  /\ UNCHANGED <<payments, sessions, hooks, race>>

\* PUT /orders/:id/cancel
CancelOrder(c, id, storeOk, sameMs) ==
  StatusRoute(CancelRoute, c, id, storeOk, sameMs)

\* PUT /orders/:id/accept
AcceptOrder(c, id, storeOk, sameMs) ==
  StatusRoute(AcceptRoute, c, id, storeOk, sameMs)

\* PUT /orders/:id/reject
RejectOrder(c, id, storeOk, sameMs) ==
  StatusRoute(RejectRoute, c, id, storeOk, sameMs)

\* PUT /chef/orders/:id/accept
ChefAcceptOrder(c, id, storeOk) ==
  StatusRoute(ChefAcceptRoute, c, id, storeOk, TRUE)

\* PUT /chef/orders/:id/reject
ChefRejectOrder(c, id, storeOk) ==
  StatusRoute(ChefRejectRoute, c, id, storeOk, TRUE)

\* ------------------------------------------------------------ checkout
\* Session ids the gateway hands out, in order of creation, and the id of a
\* session of the same gateway account that this server did not create.
SessId == <<"cs1", "cs2", "cs3", "cs4", "cs5", "cs6">>
ForeignSession == "cs9"

\* The document POST /payments/create-payment inserts.
\* A record that is born paid.
PaymentRecordPaid(c, b, sid) ==
  [orderId |-> b.orderId, email |-> c.email, amount |-> b.amount,
   currency |-> IF Truthy(b.currency) THEN b.currency ELSE "usd",
   status |-> "paid", sessionId |-> sid, createdAt |-> Stamp,
   paidAt |-> Absent]
PaymentRecord(c, b, sid) ==
  [orderId |-> b.orderId, email |-> c.email, amount |-> b.amount,
   currency |-> IF Truthy(b.currency) THEN b.currency ELSE "usd",
   status |-> "pending", sessionId |-> sid, createdAt |-> Stamp,
   paidAt |-> Absent]

\* POST /payments/create-payment (verifyToken only).  gatewayOk: whether
\* stripe.checkout.sessions.create returns a session; the session carries
\* metadata {orderId}.  sessions is the gateway's side: the metadata of the
\* sessions it created.
NextSessId == SessId[Cardinality(DOMAIN sessions) + 1]

\* The gateway's sessions after the request: one more, with metadata
\* {orderId}, when the request passed verifyToken and the gateway answered.
SessionsAfterCreate(c, b, gatewayOk) ==
  IF verifyToken(c) # 200 \/ ~gatewayOk
  THEN sessions
  ELSE [s \in DOMAIN sessions \cup {NextSessId} |->
          IF s = NextSessId THEN b.orderId ELSE sessions[s]]

\* The payments collection after the request: insertOne(paymentRecord) runs
\* once sessions.create has returned; a throw of either lands in the catch.
\* An insert that does not wait for the gateway.
PaymentsAfterCreateEager(c, b, gatewayOk, storeOk) ==
  IF verifyToken(c) # 200 \/ ~storeOk
  THEN payments
  ELSE [s \in DOMAIN payments \cup {NextSessId} |->
          IF s = NextSessId THEN PaymentRecord(c, b, NextSessId) ELSE payments[s]]
PaymentsAfterCreate(c, b, gatewayOk, storeOk) ==
  IF verifyToken(c) # 200 \/ ~gatewayOk \/ ~storeOk
  THEN payments
  ELSE [s \in DOMAIN payments \cup {NextSessId} |->
          IF s = NextSessId THEN PaymentRecord(c, b, NextSessId) ELSE payments[s]]

\* What the request is answered: {success: true, id, url}, or 500 from the catch.
CreateResponse(c, b, gatewayOk, storeOk) ==
  IF verifyToken(c) # 200
  THEN Response("verifyToken", Absent, verifyToken(c), FALSE, 0)
  ELSE IF ~gatewayOk \/ ~storeOk
  THEN Response("POST /payments/create-payment", Absent, 500, FALSE, 0)
  ELSE Response("POST /payments/create-payment", Absent, 200, TRUE, 0)

CreatePayment(c, b, gatewayOk, storeOk) ==
  /\ sessions' = SessionsAfterCreate(c, b, gatewayOk)
  /\ payments' = PaymentsAfterCreate(c, b, gatewayOk, storeOk)
  /\ resp' = CreateResponse(c, b, gatewayOk, storeOk)
  /\ UNCHANGED <<orders, hooks, race>>

\* ------------------------------------------------------------- webhook
\* stripe.webhooks.constructEvent(req.body, sig, secret): returns the event
\* when the signature verifies (sigOk) and throws otherwise.
\* A constructEvent that accepts every request.
constructEventNoCheck(ev) == TRUE
constructEvent(ev) == ev.sigOk

CheckoutCompleted == "checkout.session.completed"

\* The payments updateOne of the handler: {sessionId} -> status paid, paidAt.
\* paidAt is "now" when written in the current millisecond, "earlier" after.
\* An update whose filter matches every payment.
PaymentsAfterHookAll(h) ==
  [s \in DOMAIN payments |->
     SetFields(payments[s], [status |-> "paid", paidAt |-> "now"])]
PaymentsAfterHook(h) ==
  IF h.sid \in DOMAIN payments
  THEN [payments EXCEPT ![h.sid] =
          SetFields(payments[h.sid], [status |-> "paid", paidAt |-> "now"])]
  ELSE payments

\* The orders updateOne of the handler: {_id} -> paymentStatus paid,
\* orderStatus accepted.
\* An update that also rewrites the price.
HookOrderSetPrice ==
  [paymentStatus |-> "paid", orderStatus |-> "accepted", price |-> "0"]
HookOrderSet == [paymentStatus |-> "paid", orderStatus |-> "accepted"]

OrdersAfterHook(h) ==
  IF h.oid \in DOMAIN orders
  THEN [orders EXCEPT ![h.oid] = SetFields(orders[h.oid], HookOrderSet)]
  ELSE orders

\* The handlers a request starts: none unless constructEvent returns a
\* checkout.session.completed event; then one, about to send its payments
\* update, holding session.id and session.metadata.orderId.
\* A handler that is started whatever the type of the event.
HooksAfterReceiveAnyType(ev) ==
  IF constructEvent(ev)
  THEN hooks (+) SetToBag({[sid |-> ev.sid, oid |-> ev.oid, pc |-> "payment"]})
  ELSE hooks
HooksAfterReceive(ev) ==
  IF constructEvent(ev) /\ ev.type = CheckoutCompleted
  THEN hooks (+) SetToBag({[sid |-> ev.sid, oid |-> ev.oid, pc |-> "payment"]})
  ELSE hooks

\* What the request is answered at once: 400 when constructEvent throws,
\* {received: true} for an event of another type; a completed event is
\* answered at the end of its handler.
ReceiveResponse(ev) ==
  IF ~constructEvent(ev)
  THEN Response("POST /payments/webhook", Absent, 400, FALSE, 0)
  ELSE IF ev.type # CheckoutCompleted
  THEN Response("POST /payments/webhook", Absent, 200, FALSE, 0)
  ELSE resp

\* POST /payments/webhook up to the first await.
WebhookReceive(ev) ==
  /\ hooks' = HooksAfterReceive(ev)
  /\ resp' = ReceiveResponse(ev)
  /\ UNCHANGED <<orders, payments, sessions, race>>

\* await paymentsCollection.updateOne.  A store error rejects the handler's
\* promise: nothing catches it and the request is never answered.
WebhookUpdatePayment(h, storeOk) ==
  /\ BagIn(h, hooks)
  /\ h.pc = "payment"
  /\ IF storeOk
     THEN /\ payments' = PaymentsAfterHook(h)
          /\ hooks' = (hooks (-) SetToBag({h}))
                        (+) SetToBag({[h EXCEPT !.pc = "order"]})
     ELSE /\ hooks' = hooks (-) SetToBag({h})
          /\ UNCHANGED payments
  /\ UNCHANGED <<orders, sessions, resp, race>>

\* if (session.metadata?.orderId) await ordersCollection.updateOne(...), then
\* res.json({received: true}).  new ObjectId of a malformed id throws: the
\* promise is rejected and the request is never answered.
WebhookUpdateOrder(h, storeOk) ==
  /\ BagIn(h, hooks)
  /\ h.pc = "order"
  /\ hooks' = hooks (-) SetToBag({h})
  /\ IF ~Truthy(h.oid)
     THEN /\ resp' = Response("POST /payments/webhook", Absent, 200, FALSE, 0)
          /\ UNCHANGED orders
     ELSE IF ~ValidObjectId(h.oid) \/ ~storeOk
     THEN UNCHANGED <<orders, resp>>
     ELSE /\ orders' = OrdersAfterHook(h)
          /\ resp' = Response("POST /payments/webhook", h.oid, 200, FALSE, 0)
  /\ UNCHANGED <<payments, sessions, race>>

\* Time passes: a paidAt written in the current millisecond is now earlier.
Tick ==
  /\ \E s \in DOMAIN payments : payments[s].paidAt = "now"
  /\ payments' = [s \in DOMAIN payments |->
                    IF payments[s].paidAt = "now"
                    THEN [payments[s] EXCEPT !.paidAt = "earlier"]
                    ELSE payments[s]]
  /\ UNCHANGED <<orders, sessions, hooks, resp, race>>

\* The notifications a webhook request can carry: the gateway's events for
\* its sessions (with the metadata the session was created with) and for a
\* foreign session, and requests whose signature does not verify.
GatewayEvents ==
  {[sigOk |-> TRUE, type |-> t, sid |-> s, oid |-> sessions[s]] :
     t \in {CheckoutCompleted, "payment_intent.created"}, s \in DOMAIN sessions}
  \cup {[sigOk |-> TRUE, type |-> CheckoutCompleted, sid |-> ForeignSession,
         oid |-> o] : o \in DOMAIN orders \cup {Absent}}
ForgedEvents ==
  {[sigOk |-> FALSE, type |-> CheckoutCompleted, sid |-> s, oid |-> o] :
     s \in DOMAIN payments \cup {ForeignSession}, o \in DOMAIN orders \cup {Absent}}
Events == GatewayEvents \cup ForgedEvents

\* Request bodies of create-payment.
PayBodies ==
  {[amount |-> "20", currency |-> Absent, orderId |-> o] :
     o \in DOMAIN orders \cup {Absent}}

\* Bodies with an amount that is zero or negative, and a body whose orderId
\* is no ObjectId.
NonPositive == {"0", "-5"}
AmountBodies ==
  {[amount |-> a, currency |-> Absent, orderId |-> o] :
     a \in NonPositive, o \in DOMAIN orders \cup {Absent}}
MalformedOrderBody ==
  [amount |-> "20", currency |-> Absent, orderId |-> MalformedId]
\* A body whose orderId is an ObjectId that names no order.
MissingOrderBody ==
  [amount |-> "20", currency |-> Absent, orderId |-> MissingId]

\* ------------------------------------------------------ specifications
\* Who sends the place-order requests: customer U1, a chef (POST /orders
\* turns a chef away), and the cookies verifyToken turns away.
OrderPlacers == {LoginToken(U1), LoginToken(K1), NoCookie, BadCookie}
UserOrderPlacers == {LoginToken(U1), NoCookie, BadCookie}

\* ------------------------------------------- concurrent status requests
\* A handler runs up to its await of updateOne and the store applies the
\* updates of the requests in flight in any order.  race is the requests that
\* passed the middleware: the status the order had when the handler sent its
\* update (saw), where the request is (sent, answered) and the modifiedCount
\* it was answered with.
RaceSend(n, c, id) ==
  /\ Gate(c, RouteOf(n, c).role) = 200
  /\ id \in DOMAIN orders
  /\ \A r \in race : r.route # n
  /\ race' = race \cup {[route |-> n, cookie |-> c, id |-> id,
                          saw |-> orders[id].orderStatus, pc |-> "sent",
                          modified |-> 0]}
  /\ UNCHANGED <<orders, payments, sessions, hooks, resp>>

\* The store applies the update of a request in flight and the handler answers.
RaceAnswer(r, sameMs) ==
  /\ r \in race
  /\ r.pc = "sent"
  /\ orders' = HandlerOrders(r.route, r.cookie, r.id, TRUE)
  /\ resp' = HandlerResponse(r.route, r.cookie, r.id, TRUE, sameMs)
  /\ race' = (race \ {r}) \cup
               {[r EXCEPT !.pc = "answered", !.modified = resp'.modified]}
  /\ UNCHANGED <<payments, sessions, hooks>>

\* The parties of an order: its customer and the chef the orders name.
Parties == {LoginToken(U1), LoginToken(K1)}

\* The bounds of the specifications: how many orders, sessions, handlers in
\* flight and racing requests there are room for.
OrderRoom == Cardinality(DOMAIN orders) < MaxOrders
SessionRoom(n) == Cardinality(DOMAIN sessions) < n
HookRoom(n) == BagCardinality(hooks) < n
RaceRoom == Cardinality(race) < MaxRace

NextRace ==
  \/ \E c \in UserOrderPlacers, b \in CoreBodies :
       OrderRoom /\ PlaceOrder(c, b, TRUE)
  \/ \E c \in UserOrderPlacers, b \in CoreBodies :
       OrderRoom /\ PlaceUserOrder(c, b, TRUE)
  \/ \E n \in StatusRoutes, c \in Parties, id \in DOMAIN orders :
       RaceRoom /\ RaceSend(n, c, id)
  \/ \E r \in race, ms \in BOOLEAN : RaceAnswer(r, ms)

SpecRace == Init /\ [][NextRace]_vars

\* The order routes alone.  The store answers every single-update request.
NextOrders ==
  \/ \E c \in OrderPlacers, b \in CoreBodies, ok \in BOOLEAN :
       OrderRoom /\ PlaceOrder(c, b, ok)
  \/ \E c \in UserOrderPlacers, b \in CoreBodies, ok \in BOOLEAN :
       OrderRoom /\ PlaceUserOrder(c, b, ok)
  \/ \E c \in Cookies, id \in IdParams :
       \E ms \in SameMs(id, "cancelledAt") : CancelOrder(c, id, TRUE, ms)
  \/ \E c \in Cookies, id \in IdParams :
       \E ms \in SameMs(id, "acceptedAt") : AcceptOrder(c, id, TRUE, ms)
  \/ \E c \in Cookies, id \in IdParams :
       \E ms \in SameMs(id, "rejectedAt") : RejectOrder(c, id, TRUE, ms)
  \/ \E c \in Cookies, id \in IdParams : ChefAcceptOrder(c, id, TRUE)
  \/ \E c \in Cookies, id \in IdParams : ChefRejectOrder(c, id, TRUE)

SpecOrders == Init /\ [][NextOrders]_vars

\* A webhook request that may start a handler, while there is room for one.
Deliver(ev, n) ==
  /\ (constructEvent(ev) /\ ev.type = CheckoutCompleted) => HookRoom(n)
  /\ WebhookReceive(ev)

\* Orders, checkout and the webhook together, the order routes used by the
\* parties of the order.
Next ==
  \/ OrderRoom /\ PlaceOrder(LoginToken(U1), FullBody, TRUE)
  \/ OrderRoom /\ PlaceUserOrder(LoginToken(U1), FullBody, TRUE)
  \/ \E id \in DOMAIN orders :
       \E ms \in SameMs(id, "cancelledAt") : CancelOrder(LoginToken(U1), id, TRUE, ms)
  \/ \E id \in DOMAIN orders : ChefAcceptOrder(LoginToken(K1), id, TRUE)
  \/ \E id \in DOMAIN orders : ChefRejectOrder(LoginToken(K1), id, TRUE)
  \/ \E b \in PayBodies, gw \in BOOLEAN :
       SessionRoom(MaxPayments) /\ CreatePayment(LoginToken(U1), b, gw, TRUE)
  \/ \E ev \in Events : Deliver(ev, MaxHooks)
  \/ \E h \in BagToSet(hooks) : WebhookUpdatePayment(h, TRUE)
  \/ \E h \in BagToSet(hooks) : WebhookUpdateOrder(h, TRUE)
  \/ Tick

Spec == Init /\ [][Next]_vars

\* Checkout and the webhook: genuine and forged notifications.
NextForged ==
  \/ OrderRoom /\ PlaceOrder(LoginToken(U1), FullBody, TRUE)
  \/ \E c \in UserOrderPlacers, b \in PayBodies, gw \in BOOLEAN :
       SessionRoom(MaxForgedPayments) /\ CreatePayment(c, b, gw, TRUE)
  \/ \E ev \in Events : Deliver(ev, MaxForgedHooks)
  \/ \E h \in BagToSet(hooks) : WebhookUpdatePayment(h, TRUE)
  \/ \E h \in BagToSet(hooks) : WebhookUpdateOrder(h, TRUE)
  \/ Tick

SpecForged == Init /\ [][NextForged]_vars

\* Placing an order, checkout and the webhook with the requests and outcomes
\* that go wrong: a missing field, prices and amounts that are not positive, an orderId that is no ObjectId, a gateway
\* call or a store call that throws.
NextFaults ==
  \/ \E b \in {FullBody} \cup PriceBodies :
       OrderRoom /\ PlaceOrder(LoginToken(U1), b, TRUE)
  \/ \E b \in {NoChefBody} \cup PriceBodies :
       OrderRoom /\ PlaceUserOrder(LoginToken(U1), b, TRUE)
  \/ \E b \in PayBodies \cup AmountBodies
                \cup {MalformedOrderBody, MissingOrderBody},
        gw \in BOOLEAN, ok \in BOOLEAN :
       SessionRoom(MaxForgedPayments) /\ CreatePayment(LoginToken(U1), b, gw, ok)
  \/ \E ev \in GatewayEvents : Deliver(ev, MaxForgedHooks)
  \/ \E h \in BagToSet(hooks), ok \in BOOLEAN : WebhookUpdatePayment(h, ok)
  \/ \E h \in BagToSet(hooks), ok \in BOOLEAN : WebhookUpdateOrder(h, ok)

SpecFaults == Init /\ [][NextFaults]_vars

\* ------------------------------------------- the webhook request on the wire
\* A request to POST /payments/webhook as it arrives: its Content-Type,
\* whether its stripe-signature header signs its payload with the endpoint
\* secret, and the event its payload spells.  The gateway posts
\* application/json.
JsonType == "application/json"
Deliveries ==
  {[signed |-> g, ctype |-> t, type |-> CheckoutCompleted, sid |-> s,
    oid |-> sessions[s]] :
     g \in BOOLEAN, t \in {JsonType, "text/plain"}, s \in DOMAIN sessions}

\* app.use(express.json()): runs for every request before the routes.  It
\* parses a body of type application/json into an object and marks the request
\* as parsed; a body of another type it leaves unparsed.
jsonParser(d) == IF d.ctype = JsonType THEN "object" ELSE "unparsed"

\* express.raw({type: "application/json"}) on the route: skips a request that
\* is already parsed, reads a body of type application/json into a Buffer and
\* leaves any other unparsed.
rawParser(d, body) ==
  IF body = "unparsed" /\ d.ctype = JsonType THEN "buffer" ELSE body

\* req.body when the handler runs.
RequestBody(d) == rawParser(d, jsonParser(d))

\* constructEvent(req.body, sig, secret) on the wire: it verifies the signature
\* over the raw payload, so it returns the event only for a Buffer (or string)
\* body that the header signs, and throws for a parsed object or no body.
WireEvent(d) ==
  [sigOk |-> (RequestBody(d) = "buffer" /\ d.signed), type |-> d.type,
   sid |-> d.sid, oid |-> d.oid]

\* POST /payments/webhook behind the application's middleware.
WebhookRequest(d) == Deliver(WireEvent(d), MaxHooks)

\* The application as it is mounted: orders, checkout and webhook requests on
\* the wire.  No handler gets past constructEvent, so the handler's store
\* steps are no steps of this specification.
NextWire ==
  \/ \E b \in CoreBodies : OrderRoom /\ PlaceOrder(LoginToken(U1), b, TRUE)
  \/ \E b \in CoreBodies : OrderRoom /\ PlaceUserOrder(LoginToken(U1), b, TRUE)
  \/ \E id \in DOMAIN orders :
       \E ms \in SameMs(id, "cancelledAt") : CancelOrder(LoginToken(U1), id, TRUE, ms)
  \/ \E id \in DOMAIN orders : ChefAcceptOrder(LoginToken(K1), id, TRUE)
  \/ \E id \in DOMAIN orders : ChefRejectOrder(LoginToken(K1), id, TRUE)
  \/ \E c \in UserOrderPlacers, b \in PayBodies, gw \in BOOLEAN, ok \in BOOLEAN :
       SessionRoom(MaxPayments) /\ CreatePayment(c, b, gw, ok)
  \/ \E d \in Deliveries : WebhookRequest(d)

SpecWire == Init /\ [][NextWire]_vars

\* The gateway's completion events for the sessions this server created.
Completions ==
  {ev \in GatewayEvents : ev.type = CheckoutCompleted /\ ev.sid \in DOMAIN sessions}

\* The gateway's events of another type for those sessions.
OtherEvents ==
  {ev \in GatewayEvents : ev.type # CheckoutCompleted /\ ev.sid \in DOMAIN sessions}

\* An order, its cancel, accept and reject, checkout for it and the webhook
\* with a handler at a time.
NextPaid ==
  \/ OrderRoom /\ PlaceOrder(LoginToken(U1), FullBody, TRUE)
  \/ OrderRoom /\ PlaceUserOrder(LoginToken(U1), FullBody, TRUE)
  \/ \E id \in DOMAIN orders :
       \E ms \in SameMs(id, "cancelledAt") : CancelOrder(LoginToken(U1), id, TRUE, ms)
  \/ \E id \in DOMAIN orders : ChefAcceptOrder(LoginToken(K1), id, TRUE)
  \/ \E id \in DOMAIN orders : ChefRejectOrder(LoginToken(K1), id, TRUE)
  \/ \E b \in {p \in PayBodies : p.orderId \in DOMAIN orders} :
       SessionRoom(MaxForgedPayments) /\ CreatePayment(LoginToken(U1), b, TRUE, TRUE)
  \/ \E ev \in Completions : Deliver(ev, MaxForgedHooks)
  \/ \E ev \in OtherEvents : Deliver(ev, MaxForgedHooks)
  \/ \E h \in BagToSet(hooks) : WebhookUpdatePayment(h, TRUE)
  \/ \E h \in BagToSet(hooks) : WebhookUpdateOrder(h, TRUE)

SpecPaid == Init /\ [][NextPaid]_vars

\* Placing orders: every credential, bodies that name an owner and statuses
\* of their own, then a cancel and an accept.
NextPlace ==
  \/ \E c \in Cookies, b \in CoreBodies \cup {ForgedMealBody} :
       OrderRoom /\ PlaceOrder(c, b, TRUE)
  \/ \E c \in Cookies, b \in CoreBodies \cup {ForgedMealBody} :
       OrderRoom /\ PlaceUserOrder(c, b, TRUE)
  \/ \E c \in Tokens, id \in DOMAIN orders : CancelOrder(c, id, TRUE, FALSE)
  \/ \E c \in Tokens, id \in DOMAIN orders : ChefAcceptOrder(c, id, TRUE)

SpecPlace == Init /\ [][NextPlace]_vars

\* ---------------------------------------------------------------- claims
\* C1: terminal order states are absorbing: once an order's orderStatus has
\* left "pending", no later cancel, accept or reject request changes it.
TerminalStatesAbsorbing ==
  [][\A id \in DOMAIN orders :
       orders[id].orderStatus # "pending"
         => orders'[id].orderStatus = orders[id].orderStatus]_vars

\* C7: every order a place-order request creates is stored with
\* orderStatus "pending" and paymentStatus "unpaid".
PlacedPendingUnpaid ==
  [][\A id \in DOMAIN orders' \ DOMAIN orders :
       /\ orders'[id].orderStatus = "pending"
       /\ orders'[id].paymentStatus = "unpaid"]_vars

\* C8: a cancel request by anyone whose email is not the owner email of the
\* order it names (or that names no order) leaves every order as it was.
NonOwnerCancelChangesNoOrder ==
  \A c \in Cookies, id \in IdParams, ok \in BOOLEAN :
    (id \notin DOMAIN orders \/ c.email # orders[id].userEmail)
      => After(CancelRoute, c, id, ok) = orders

\* C8 witness: a cancel of an existing pending order was answered 200 with
\* modifiedCount 0 and the order is still pending: the requester passed
\* verifyRole("user") and was not the owner.
NonOwnerCancelServed ==
  /\ resp.route = CancelRoute
  /\ resp.status = 200
  /\ resp.modified = 0
  /\ resp.id \in DOMAIN orders
  /\ orders[resp.id].orderStatus = "pending"

\* The chef a credential stands for: the id the login token carries.
IsCounterparty(c, id) ==
  /\ id \in DOMAIN orders
  /\ c.role = "chef"
  /\ Truthy(c.id)
  /\ c.id = orders[id].chefId

\* C9: an accept or reject request, on the /orders/:id or the /chef/orders/:id
\* routes, changes an order only when the requester is the order's counterparty
\* chef; and the counterparty chef of a pending order can accept or reject it.
OnlyCounterpartyChefDecides ==
  \A c \in Cookies, id \in IdParams :
    /\ ~IsCounterparty(c, id)
         => \A n \in {AcceptRoute, RejectRoute, ChefAcceptRoute, ChefRejectRoute} :
              After(n, c, id, TRUE) = orders
    /\ (IsCounterparty(c, id) /\ orders[id].orderStatus = "pending")
         => /\ After(AcceptRoute, c, id, TRUE)[id].orderStatus = "accepted"
            /\ After(RejectRoute, c, id, TRUE)[id].orderStatus = "rejected"
            /\ After(ChefAcceptRoute, c, id, TRUE)[id].orderStatus = "accepted"
            /\ After(ChefRejectRoute, c, id, TRUE)[id].orderStatus = "rejected"

\* C10: a cancel, accept or reject request that does not take effect reports a
\* failure: 404 on a missing order, 403 on an order the requester does not
\* own, a 4xx on an order that is no longer pending; never a success.
FailedRequestReportsFailure ==
  \A n \in {CancelRoute, AcceptRoute, RejectRoute}, c \in Tokens,
     id \in IdParams \ {MalformedId}, ms \in BOOLEAN :
    LET r == RouteOf(n, c)
        a == Answer(n, c, id, TRUE, ms)
    IN  Gate(c, r.role) = 200 =>
          /\ After(n, c, id, TRUE) = orders => a.status # 200
          /\ id \notin DOMAIN orders => a.status = 404
          /\ (id \in DOMAIN orders /\ ~OrderMatches(id, r.flt.field, r.flt.value))
               => a.status = 403
          /\ (OrderMatches(id, r.flt.field, r.flt.value)
              /\ orders[id].orderStatus # "pending")
               => a.status \in 400..499

\* The requests sent to order id while it was pending, and those among them
\* answered with modifiedCount 1.
Contenders(id) == {r \in race : r.id = id /\ r.saw = "pending"}
Winners(id) == {r \in Contenders(id) : r.pc = "answered" /\ r.modified = 1}

\* C2: of the cancel, accept and reject requests sent concurrently to a pending
\* order at most one reports that it changed the order, the order ends in the
\* status that request set, and once a cancel, an accept and a reject have all
\* been answered exactly one of them has won.
OneWinnerPerPendingOrder ==
  \A id \in DOMAIN orders :
    /\ Cardinality(Winners(id)) <= 1
    /\ \A w \in Winners(id) :
         orders[id].orderStatus = RouteOf(w.route, w.cookie).upd.orderStatus
    /\ ( /\ \A r \in Contenders(id) : r.pc = "answered"
         /\ {"cancelled", "accepted", "rejected"} \subseteq
              {RouteOf(r.route, r.cookie).upd.orderStatus : r \in Contenders(id)} )
         => Cardinality(Winners(id)) = 1

Decided == {"accepted", "rejected", "cancelled"}

\* C3: when the handler of a verified checkout.session.completed notification
\* writes an order whose orderStatus is already accepted, rejected or
\* cancelled (also when a cancel or reject took effect while the handler was
\* in flight), the order's paymentStatus becomes "paid" and its orderStatus is
\* left as it was.
HookLeavesDecidedOrderStatus ==
  \A h \in BagToSet(hooks) :
    (h.pc = "order" /\ h.oid \in DOMAIN orders
     /\ orders[h.oid].orderStatus \in Decided)
      => /\ OrdersAfterHook(h)[h.oid].paymentStatus = "paid"
         /\ OrdersAfterHook(h)[h.oid].orderStatus = orders[h.oid].orderStatus

\* C4: a delivery of a checkout.session.completed notification that finds the
\* payment of its session already "paid" writes nothing to the payment: the
\* status and paidAt are written once however often the notification arrives.
DuplicateDeliveryWritesNothing ==
  \A h \in BagToSet(hooks) :
    (h.pc = "payment" /\ h.sid \in DOMAIN payments
     /\ payments[h.sid].status = "paid")
      => PaymentsAfterHook(h) = payments

\* C5: a webhook request whose signature does not verify is answered 400 and
\* starts no handler, so nothing of it ever writes a payment or an order (the
\* request itself leaves both collections unchanged).
ForgedNotificationRejected ==
  \A ev \in Events :
    ~ev.sigOk => /\ HooksAfterReceive(ev) = hooks
                 /\ ReceiveResponse(ev).status = 400

\* C5 witness: a webhook request was answered 400 while an order was placed
\* and the payment of a checkout session for it was still pending and no
\* handler was in flight.
ForgedNotificationServed ==
  /\ resp.route = "POST /payments/webhook"
  /\ resp.status = 400
  /\ hooks = EmptyBag
  /\ \E s \in DOMAIN payments :
       /\ payments[s].status = "pending"
       /\ payments[s].orderId \in DOMAIN orders
       /\ orders[payments[s].orderId].paymentStatus # "paid"

\* C6: for each order at most one payment record has status "paid", however
\* many checkout sessions were created for the order and completed.
OnePaidPaymentPerOrder ==
  \A s, t \in DOMAIN payments :
    (s # t /\ Truthy(payments[s].orderId)
     /\ payments[s].orderId = payments[t].orderId)
      => ~(payments[s].status = "paid" /\ payments[t].status = "paid")

\* C11: the handler of a verified checkout.session.completed notification
\* whose session id matches no stored payment changes no payment and no
\* order: the order its metadata names keeps its paymentStatus and
\* orderStatus.
UnmatchedNotificationIsNoOp ==
  \A h \in BagToSet(hooks) :
    h.sid \notin DOMAIN payments
      => /\ PaymentsAfterHook(h) = payments
         /\ OrdersAfterHook(h) = orders

\* C12: a payment's status becomes "paid" only in the payment write of a
\* handler running for that payment's own session id, an order's paymentStatus
\* becomes "paid" only in the order write of a handler, and a handler is
\* started only by a request that constructEvent accepted as a
\* checkout.session.completed event; so create-payment marks nothing paid and
\* a notification for one session leaves the payments of the others alone.
PaidOnlyByOwnNotification ==
  [][ /\ \A s \in DOMAIN payments' :
           (payments'[s].status = "paid"
            /\ (s \notin DOMAIN payments \/ payments[s].status # "paid"))
             => \E h \in BagToSet(hooks) :
                  /\ h.sid = s /\ h.pc = "payment"
                  /\ hooks' = (hooks (-) SetToBag({h}))
                                (+) SetToBag({[h EXCEPT !.pc = "order"]})
      /\ \A id \in DOMAIN orders' :
           (orders'[id].paymentStatus = "paid"
            /\ (id \notin DOMAIN orders \/ orders[id].paymentStatus # "paid"))
             => \E h \in BagToSet(hooks) :
                  /\ h.oid = id /\ h.pc = "order"
                  /\ hooks' = hooks (-) SetToBag({h})
      /\ \A ev \in Events :
           HooksAfterReceive(ev) # hooks
             => ev.sigOk /\ ev.type = CheckoutCompleted
    ]_vars

\* C12 witness: the handler of the notification for a session has finished;
\* the payment of that session is paid and so is the order it is for.
OwnNotificationSettled ==
  /\ hooks = EmptyBag
  /\ resp.route = "POST /payments/webhook"
  /\ resp.status = 200
  /\ \E s \in DOMAIN payments :
       /\ payments[s].status = "paid"
       /\ payments[s].orderId \in DOMAIN orders
       /\ orders[payments[s].orderId].paymentStatus = "paid"

\* C13: a create-payment request whose gateway call fails creates no payment
\* record (the payments collection is as before) and is answered an error.
GatewayFailureCreatesNoPayment ==
  \A c \in Tokens, b \in PayBodies, ok \in BOOLEAN :
    /\ PaymentsAfterCreate(c, b, FALSE, ok) = payments
    /\ CreateResponse(c, b, FALSE, ok).status >= 400
    /\ ~CreateResponse(c, b, FALSE, ok).success

\* C13 witness: with an order placed, a create-payment request was answered
\* 500 and the gateway has no session and the store no payment.
GatewayFailureServed ==
  /\ resp.route = "POST /payments/create-payment"
  /\ resp.status = 500
  /\ orders # << >>
  /\ DOMAIN sessions = {}
  /\ DOMAIN payments = {}

\* C14: a create-payment request with an amount that is zero or negative
\* fails with a validation error: no gateway session is requested and no
\* payment record is created.
NonPositiveAmountRejected ==
  \A c \in Tokens, b \in AmountBodies, gw \in BOOLEAN, ok \in BOOLEAN :
    /\ SessionsAfterCreate(c, b, gw) = sessions
    /\ PaymentsAfterCreate(c, b, gw, ok) = payments
    /\ CreateResponse(c, b, gw, ok).status \in 400..499

\* C15: a place-order request creates an order only when mealId, the meal
\* name, chefId, chefName and price are all present and the price is positive.
PlacedOrderIsValid ==
  [][\A id \in DOMAIN orders' \ DOMAIN orders :
       /\ Truthy(orders'[id].mealId)
       /\ Truthy(orders'[id].mealName) \/ Truthy(orders'[id].foodName)
       /\ Truthy(orders'[id].chefId)
       /\ Truthy(orders'[id].chefName)
       /\ Truthy(orders'[id].price)
       /\ orders'[id].price \notin NonPositive]_vars

\* The handler a completed event for session sid with metadata oid starts.
HandlerOf(d) == [sid |-> d.sid, oid |-> d.oid, pc |-> "payment"]

\* C16: a correctly signed checkout.session.completed request for the session
\* of a pending payment starts the handler, whose writes make the payment
\* "paid", the order's paymentStatus "paid" and a pending order "accepted".
SignedCompletionSettles ==
  \A d \in Deliveries :
    (d.signed /\ d.ctype = JsonType /\ d.sid \in DOMAIN payments
     /\ payments[d.sid].status = "pending")
      => /\ HooksAfterReceive(WireEvent(d)) = hooks (+) SetToBag({HandlerOf(d)})
         /\ ReceiveResponse(WireEvent(d)).status # 400
         /\ PaymentsAfterHook(HandlerOf(d))[d.sid].status = "paid"
         /\ d.oid \in DOMAIN orders
              => LET o == OrdersAfterHook([HandlerOf(d) EXCEPT !.pc = "order"])[d.oid]
                 IN  /\ o.paymentStatus = "paid"
                     /\ orders[d.oid].orderStatus = "pending"
                          => o.orderStatus = "accepted"

\* C17: every webhook request is answered: the handler of a verified event
\* ends by answering {received: true}, also when the metadata orderId is
\* malformed or a store write fails, and 400 is answered only to a request
\* whose signature does not verify.
VerifiedEventIsAnswered ==
  [][ /\ BagCardinality(hooks') < BagCardinality(hooks)
           => /\ resp'.route = "POST /payments/webhook"
              /\ resp'.status = 200
      /\ \A ev \in Events : ReceiveResponse(ev).status = 400 => ~ev.sigOk
    ]_vars

\* C18: the handler's two writes are one unit: whenever no handler is
\* running, a payment with status "paid" whose order exists has an order
\* with paymentStatus "paid" (a failed order write is retried).
PaidPaymentHasPaidOrder ==
  hooks = EmptyBag
    => \A s \in DOMAIN payments :
         (payments[s].status = "paid" /\ payments[s].orderId \in DOMAIN orders)
           => orders[payments[s].orderId].paymentStatus = "paid"

\* C19: an order's paymentStatus never moves back: a step that changes it
\* sets it to "paid", so once "paid" it stays "paid" through every later
\* place-order, cancel, accept, reject, create-payment and webhook step.
PaymentStatusOnlyAdvances ==
  [][\A id \in DOMAIN orders :
       /\ id \in DOMAIN orders'
       /\ orders'[id].paymentStatus # orders[id].paymentStatus
            => orders'[id].paymentStatus = "paid"]_vars

\* C19 witness: an order that the webhook marked paid was cancelled
\* afterwards and is still paid.
PaidOrderCancelled ==
  \E id \in DOMAIN orders :
    /\ orders[id].paymentStatus = "paid"
    /\ orders[id].orderStatus = "cancelled"
    /\ resp.route = CancelRoute
    /\ resp.modified = 1

\* C20: a payment record is created with status "pending", and a payment
\* whose status is "paid" keeps that status in every later step.
PaymentPendingThenPaid ==
  [][\A s \in DOMAIN payments' :
       /\ s \notin DOMAIN payments => payments'[s].status = "pending"
       /\ (s \in DOMAIN payments /\ payments[s].status = "paid")
            => payments'[s].status = "paid"]_vars

\* C20 witness: the notification of a payment that is already paid has been
\* delivered again and its handler is about to write the payment.
PaidPaymentRedelivered ==
  \E h \in BagToSet(hooks) :
    /\ h.pc = "payment"
    /\ h.sid \in DOMAIN payments
    /\ payments[h.sid].status = "paid"
    /\ payments[h.sid].paidAt = "earlier"

\* C21: a request to a cancel, accept or reject route without a credential or
\* with an invalid one is answered 401, one with a valid credential of the
\* wrong role 403, and in both cases the handler does not run: the orders
\* are as before.
BadCredential401WrongRole403 ==
  \A n \in StatusRoutes, c \in Cookies, id \in IdParams :
    /\ c \in {NoCookie, BadCookie}
         => /\ Answer(n, c, id, TRUE, FALSE).status = 401
            /\ After(n, c, id, TRUE) = orders
    /\ (c \in Tokens /\ c.role # RouteOf(n, c).role)
         => /\ Answer(n, c, id, TRUE, FALSE).status = 403
            /\ After(n, c, id, TRUE) = orders

\* C22: status and timestamp are set together: an order has acceptedAt set
\* exactly when its orderStatus is "accepted", rejectedAt exactly when
\* "rejected" and cancelledAt exactly when "cancelled".
StatusAndTimestampTogether ==
  \A id \in DOMAIN orders :
    /\ orders[id].acceptedAt = Stamp <=> orders[id].orderStatus = "accepted"
    /\ orders[id].rejectedAt = Stamp <=> orders[id].orderStatus = "rejected"
    /\ orders[id].cancelledAt = Stamp <=> orders[id].orderStatus = "cancelled"

\* C23: every payment record's orderId names an existing order: a
\* create-payment request whose orderId is missing or names no order creates
\* no payment.
PaymentNamesExistingOrder ==
  \A s \in DOMAIN payments : payments[s].orderId \in DOMAIN orders

\* The initial paymentStatus each place-order route chooses.
InitialPaymentStatus == {"unpaid", "Pending"}

\* C24: the owner of a newly placed order is the requester: the document
\* POST /orders or POST /user/orders inserts carries the email of the verified
\* token, orderStatus "pending" and the route's initial paymentStatus, whatever
\* userEmail, orderStatus or paymentStatus the body supplies.
PlacedOrderOwnedByRequester ==
  /\ [](\A c \in Tokens, b \in CoreBodies \cup {ForgedMealBody} :
          \A d \in {NewOrder(c, b), NewUserOrder(c, b)} :
            LET stored == InsertOrder(d)[ObjId[Cardinality(DOMAIN orders) + 1]]
            IN  /\ stored.userEmail = c.email
                /\ stored.orderStatus = "pending"
                /\ stored.paymentStatus \in InitialPaymentStatus)
  /\ [][\A id \in DOMAIN orders' \ DOMAIN orders :
          /\ \E c \in Tokens, b \in CoreBodies \cup {ForgedMealBody} :
               orders'[id] \in {NewOrder(c, b), NewUserOrder(c, b)}
          /\ orders'[id].userEmail \in {c.email : c \in Tokens}
          /\ orders'[id].orderStatus = "pending"
          /\ orders'[id].paymentStatus \in InitialPaymentStatus]_vars

\* C24 witness: the order of a request by u1@x whose body named owner u2@x,
\* orderStatus "accepted" and paymentStatus "paid" is stored as a pending,
\* unpaid order of u1@x.
ForgedBodyPlaced ==
  /\ resp.route = "POST /user/orders"
  /\ \E id \in DOMAIN orders :
       /\ orders[id].mealId = ForgedMealBody.mealId
       /\ orders[id].userEmail = U1.email
       /\ orders[id].orderStatus = "pending"
       /\ orders[id].paymentStatus = "unpaid"

PlaceRoutes == {"POST /orders", "POST /user/orders"}

\* Whether orders collection after has every order of before, with the same
\* userEmail, chefId, mealId, price and orderTime.
KeepsIdentity(before, after) ==
  \A id \in DOMAIN before :
    /\ id \in DOMAIN after
    /\ after[id].userEmail = before[id].userEmail
    /\ after[id].chefId = before[id].chefId
    /\ after[id].mealId = before[id].mealId
    /\ after[id].price = before[id].price
    /\ after[id].orderTime = before[id].orderTime

\* C25: an order's identifying fields never change and orders are created
\* only by the place-order routes and never deleted: every step (cancel, the
\* chef's accept and reject, create-payment, the webhook), and every request
\* to /orders/:id/accept and /orders/:id/reject, keeps each order's id,
\* userEmail, chefId, mealId, price and orderTime, and a step that adds an
\* order is a place-order request.
OrderIdentityImmutable ==
  /\ [](/\ \A n \in {AcceptRoute, RejectRoute}, c \in Tokens, id \in DOMAIN orders :
             /\ KeepsIdentity(orders, After(n, c, id, TRUE))
             /\ DOMAIN After(n, c, id, TRUE) = DOMAIN orders
        /\ \A h \in BagToSet(hooks) :
             /\ KeepsIdentity(orders, OrdersAfterHook(h))
             /\ DOMAIN OrdersAfterHook(h) = DOMAIN orders)
  /\ [][ /\ KeepsIdentity(orders, orders')
         /\ DOMAIN orders' # DOMAIN orders
              => /\ resp'.route \in PlaceRoutes
                 /\ Cardinality(DOMAIN orders') = Cardinality(DOMAIN orders) + 1
       ]_vars

\* C25 witness: an order that the webhook settled and the chef then rejected
\* still has the owner, chef, meal and price it was placed with.
SettledOrderRejected ==
  \E id \in DOMAIN orders :
    /\ resp.route = ChefRejectRoute
    /\ resp.id = id
    /\ orders[id].paymentStatus = "paid"
    /\ orders[id].orderStatus = "rejected"
    /\ orders[id].userEmail = U1.email
    /\ orders[id].chefId = FullBody.chefId
    /\ orders[id].price = FullBody.price

\* C26: a verified notification of a type other than
\* checkout.session.completed starts no handler, so it writes no payment and
\* no order, and is answered {received: true}.
OtherEventTypeWritesNothing ==
  \A ev \in Events :
    (ev.sigOk /\ ev.type # CheckoutCompleted)
      => /\ HooksAfterReceive(ev) = hooks
         /\ ReceiveResponse(ev) =
              Response("POST /payments/webhook", Absent, 200, FALSE, 0)

\* C26 witness: the webhook answered {received: true} while the payment of
\* the only session is still pending, its order unpaid and no handler running.
OtherEventTypeServed ==
  /\ resp.route = "POST /payments/webhook"
  /\ resp.status = 200
  /\ hooks = EmptyBag
  /\ DOMAIN payments # {}
  /\ \A s \in DOMAIN payments :
       /\ payments[s].status = "pending"
       /\ payments[s].orderId \in DOMAIN orders
       /\ orders[payments[s].orderId].paymentStatus # "paid"
====
